---- MODULE Spec2Model ----
(***************************************************************************)
(* A model of EducationalDataAnalyzer (src/src/data_analyzer.py): the      *)
(* analyzer holds one DataFrame, self.df, and every method computes a      *)
(* derived table or dictionary from it.                                    *)
(*                                                                         *)
(* A DataFrame is [columns, rows]: columns is the sequence of column       *)
(* names, rows the sequence of rows in frame order. A row is               *)
(* [index, cells]: index is the pandas index label the row had at load     *)
(* (its original position, from 0), cells maps each column name to a       *)
(* cell. A cell is NaN (missing) or Num(v). Every column of the model is   *)
(* a numeric column (dtype float64, also when the frame has no rows).      *)
(*                                                                         *)
(* A float the code computes by division is kept as an exact fraction      *)
(* [num, den] with den > 0 (Frac); the float NaN of a statistic is         *)
(* FloatNaN.                                                               *)
(***************************************************************************)
EXTENDS Integers, Sequences, FiniteSets, TLC

VARIABLES df,       \* self.df, the analyzer's frame
          loaded,   \* the frame handed to __init__ (history: never changes)
          call,     \* the last method called, with its arguments
          result,   \* what that call returned, or the error it raised
          calls     \* how many calls were made: 0, 1, or 2 for two or more

vars == <<df, loaded, call, result, calls>>

----------------------------------------------------------------------------
(* Bounds of the model. *)

\* Most rows of a generated frame.
MaxRows == 3
\* Most rows of a generated frame with checkpoint columns.
MaxTrendRows == 2
\* The highest score a letter grade is asked for.
MaxGradeScore == 100

----------------------------------------------------------------------------
(* Cells and frames. *)

NaN == <<>>
Num(v) == <<v>>
notna(cell) == cell # NaN
isna(cell) == cell = NaN
Val(cell) == cell[1]

\* Scores a cell of the "score" column takes: below, at and above the
\* thresholds the calls use, with ties possible in three rows.
ScoreValues == {40, 60, 85}
\* The column names the calls are made with: "score" is a column of every
\* frame of the model, "bonus" of none.
ColumnNames == {"score", "bonus"}

Range(s) == {s[i] : i \in DOMAIN s}

HasColumn(frame, c) == c \in Range(frame.columns)

Row(i, cells) == [index |-> i, cells |-> cells]

\* The frames with columns student_id, score and n rows; student_id is the
\* row's position (from 1).
GradeFrames(n) ==
    { [columns |-> <<"student_id", "score">>,
       rows |-> [i \in 1..n |->
                   Row(i - 1, [c \in {"student_id", "score"} |->
                                 IF c = "student_id" THEN Num(i) ELSE s[i]])]]
      : s \in [1..n -> {NaN} \cup {Num(v) : v \in ScoreValues}] }

\* The five-row dataset of the scenarios: score = [95, 40, 70, 60, 85].
ExampleScores == <<95, 40, 70, 60, 85>>
ExampleFrame ==
    [columns |-> <<"student_id", "score">>,
     rows |-> [i \in 1..Len(ExampleScores) |->
                 Row(i - 1, [c \in {"student_id", "score"} |->
                               IF c = "student_id" THEN Num(i)
                               ELSE Num(ExampleScores[i])])]]

Datasets ==
    UNION { GradeFrames(n) : n \in 0..MaxRows } \cup { ExampleFrame }

\* df.copy(): a new frame with the same columns, index and cells.
DataFrameCopy(frame) == [columns |-> frame.columns, rows |-> frame.rows]

\* self.df[c], as the sequence of cells in frame order.
Series(frame, c) == [i \in 1..Len(frame.rows) |-> frame.rows[i].cells[c]]

\* frame.head(n) / .iloc[:n].
HeadRows(rows, n) == SubSeq(rows, 1, IF n < Len(rows) THEN n ELSE Len(rows))

----------------------------------------------------------------------------
(* Results. *)

NoResult == [kind |-> "none"]

\* An exception: its Python type and the column names its message carries.
Raise(type, names) == [kind |-> "error", type |-> type, names |-> names]

\* An exact fraction num/den, den > 0.
Frac(num, den) == [num |-> num, den |-> den]

\* The float NaN of a statistic that is not defined.
FloatNaN == [nan |-> TRUE]

\* The square root of a fraction, kept as the fraction under the root.
Sqrt(f) == [sqrt |-> f]

\* An Optional argument.
None == <<>>
Some(v) == <<v>>

----------------------------------------------------------------------------
(* Arguments the calls are made with. *)

\* passing_score and threshold: the default passing score, 60, which is a
\* score of the frames, and 70, which has two different scores below it.
Thresholds == {60, 70}
\* n: none, fewer than the rows, and more than the rows of a generated frame.
Counts == 0..(MaxRows + 1)

\* numeric_cols: omitted, or a list of names.
NumericColsArgs ==
    {None, Some(<<"score">>), Some(<<"score", "bonus">>), Some(<<>>)}

\* subject_columns
SubjectColumnsArgs ==
    {<<"score">>, <<"bonus", "score", "student_id">>, <<"score", "score">>,
     <<"bonus">>}

\* columns of identify_correlations: omitted, or a list of names.
CorrelationColumnsArgs ==
    {None, Some(<<"score", "student_id">>), Some(<<"bonus">>), Some(<<>>)}

\* (score_column, attendance_column)
AttendanceArgs ==
    {<<"score", "student_id">>, <<"score", "bonus">>, <<"bonus", "student_id">>}

\* student_id_col
StudentIdArgs == {"student_id", "bonus"}

\* score_cols
ScoreColsArgs ==
    {<<"score">>, <<"student_id", "score">>, <<"score", "bonus">>, <<>>}

----------------------------------------------------------------------------
(* calculate_pass_fail_rate *)

\* len(self.df)
TotalStudents(frame) == Len(frame.rows)

\* PassedCount with the comparison strict.
PassedCountStrict(frame, score_column, passing_score) ==
    Cardinality({ i \in 1..Len(frame.rows) :
                    /\ notna(frame.rows[i].cells[score_column])
                    /\ Val(frame.rows[i].cells[score_column]) > passing_score })

\* (self.df[score_column] >= passing_score).sum(): a comparison with NaN is
\* False.
PassedCount(frame, score_column, passing_score) ==
    Cardinality({ i \in 1..Len(frame.rows) :
                    /\ notna(frame.rows[i].cells[score_column])
                    /\ Val(frame.rows[i].cells[score_column]) >= passing_score })

\* FailedCount with the operands exchanged.
FailedCountSwapped(total, passed) == passed - total

\* total - passed
FailedCount(total, passed) == total - passed

\* Rate without the factor 100.
RateAsFraction(count, total) ==
    IF total > 0 THEN Frac(count, total) ELSE Frac(0, 1)

\* (count / total * 100) if total > 0 else 0
Rate(count, total) ==
    IF total > 0 THEN Frac(count * 100, total) ELSE Frac(0, 1)

calculate_pass_fail_rate(frame, score_column, passing_score) ==
    IF ~HasColumn(frame, score_column)
    THEN Raise("ValueError", {score_column})
    ELSE LET total == TotalStudents(frame)
             passed == PassedCount(frame, score_column, passing_score)
             failed == FailedCount(total, passed)
         IN [kind |-> "pass_fail",
             total_students |-> total,
             passed |-> passed,
             failed |-> failed,
             pass_rate |-> Rate(passed, total),
             fail_rate |-> Rate(failed, total)]

----------------------------------------------------------------------------
(* DataFrame.nlargest / nsmallest, keep = "first" *)

\* Whether row a sorts strictly before row b on column c.
Before(a, b, c, ascending) ==
    IF ascending THEN Val(a.cells[c]) < Val(b.cells[c])
                 ELSE Val(a.cells[c]) > Val(b.cells[c])

\* InsertAt that puts a row before the rows of equal key.
InsertAtUnstable(s, r, c, ascending) ==
    Cardinality({ i \in 1..Len(s) : Before(s[i], r, c, ascending) })

\* Where row r goes in the sorted sequence s: after every row that does not
\* sort after it, so that rows with equal keys keep their frame order.
InsertAt(s, r, c, ascending) ==
    Cardinality({ i \in 1..Len(s) : ~Before(r, s[i], c, ascending) })

\* The stable sort (mergesort) of rows, none of them NaN in column c.
StableSort(rows, c, ascending) ==
    LET Insert(s, r) ==
            LET k == InsertAt(s, r, c, ascending)
            IN SubSeq(s, 1, k) \o <<r>> \o SubSeq(s, k + 1, Len(s))
        sorted[i \in 0..Len(rows)] ==
            IF i = 0 THEN <<>> ELSE Insert(sorted[i - 1], rows[i])
    IN sorted[Len(rows)]

\* The rows SelectN keeps: none for n <= 0; else the rows that are not NaN
\* in the column, sorted, then the NaN rows in frame order, cut to n.
SelectN(rows, n, c, ascending) ==
    IF n <= 0 THEN <<>>
    ELSE LET dropped == SelectSeq(rows, LAMBDA r : notna(r.cells[c]))
             nan_rows == SelectSeq(rows, LAMBDA r : isna(r.cells[c]))
         IN HeadRows(StableSort(dropped, c, ascending) \o nan_rows, n)

\* nlargest that returns no rows for a name that is no column.
nlargest_lenient(frame, n, column) ==
    [kind |-> "frame", columns |-> frame.columns,
     rows |-> IF HasColumn(frame, column)
              THEN SelectN(frame.rows, n, column, FALSE) ELSE <<>>]

\* frame.nlargest(n, column): frame[column] raises KeyError first.
nlargest(frame, n, column) ==
    IF ~HasColumn(frame, column)
    THEN Raise("KeyError", {column})
    ELSE [kind |-> "frame", columns |-> frame.columns,
          rows |-> SelectN(frame.rows, n, column, FALSE)]

\* frame.nsmallest(n, column), frame a list of rows of columns `columns`.
nsmallest(columns, rows, n, column) ==
    [kind |-> "frame", columns |-> columns,
     rows |-> SelectN(rows, n, column, TRUE)]

----------------------------------------------------------------------------
(* get_top_performers, get_struggling_students *)

\* get_top_performers that takes the n smallest.
get_top_performers_nsmallest(frame, score_column, n) ==
    IF ~HasColumn(frame, score_column)
    THEN Raise("KeyError", {score_column})
    ELSE nsmallest(frame.columns, frame.rows, n, score_column)

get_top_performers(frame, score_column, n) == nlargest(frame, n, score_column)

\* BelowThreshold with the threshold included.
BelowOrAtThreshold(row, score_column, threshold) ==
    /\ notna(row.cells[score_column])
    /\ Val(row.cells[score_column]) <= threshold

\* self.df[score_column] < threshold: a comparison with NaN is False.
BelowThreshold(row, score_column, threshold) ==
    /\ notna(row.cells[score_column])
    /\ Val(row.cells[score_column]) < threshold

get_struggling_students(frame, score_column, threshold, n) ==
    IF ~HasColumn(frame, score_column)
    THEN Raise("KeyError", {score_column})
    ELSE LET struggling ==
                 SelectSeq(frame.rows,
                           LAMBDA r : BelowThreshold(r, score_column, threshold))
         IN nsmallest(frame.columns, struggling, n, score_column)

----------------------------------------------------------------------------
(* Series statistics: NaN cells are skipped. *)

\* The values of the cells of column c that are not NaN, in frame order.
Values(frame, c) ==
    LET kept == SelectSeq(Series(frame, c), notna)
    IN [i \in 1..Len(kept) |-> Val(kept[i])]

Sum(vals) ==
    LET partial[i \in 0..Len(vals)] ==
            IF i = 0 THEN 0 ELSE partial[i - 1] + vals[i]
    IN partial[Len(vals)]

SumOfProducts(xs, ys) == Sum([i \in 1..Len(xs) |-> xs[i] * ys[i]])

\* vals in ascending order.
SortedValues(vals) ==
    LET Insert(sorted, v) ==
            LET k == Cardinality({ i \in 1..Len(sorted) : sorted[i] <= v })
            IN SubSeq(sorted, 1, k) \o <<v>> \o SubSeq(sorted, k + 1, Len(sorted))
        upto[i \in 0..Len(vals)] ==
            IF i = 0 THEN <<>> ELSE Insert(upto[i - 1], vals[i])
    IN upto[Len(vals)]

\* Series.mean()
Mean(vals) ==
    IF Len(vals) = 0 THEN FloatNaN ELSE Frac(Sum(vals), Len(vals))

\* Series.std(): the sample standard deviation (ddof = 1).
Std(vals) ==
    LET n == Len(vals)
    IN IF n < 2 THEN FloatNaN
       ELSE Sqrt(Frac(n * SumOfProducts(vals, vals) - Sum(vals) * Sum(vals),
                      n * (n - 1)))

\* Series.min(), Series.max()
MinValue(vals) ==
    IF Len(vals) = 0 THEN FloatNaN ELSE Frac(SortedValues(vals)[1], 1)
MaxValue(vals) ==
    IF Len(vals) = 0 THEN FloatNaN ELSE Frac(SortedValues(vals)[Len(vals)], 1)

\* Series.quantile(quarters / 4), linear interpolation between the order
\* statistics: the position (n - 1) * quarters / 4 from the lowest value.
Quantile(vals, quarters) ==
    LET n == Len(vals)
        sorted == SortedValues(vals)
        h == (n - 1) * quarters
        lo == h \div 4
        r == h % 4
    IN IF n = 0 THEN FloatNaN
       ELSE IF r = 0 THEN Frac(4 * sorted[lo + 1], 4)
       ELSE Frac(4 * sorted[lo + 1] + r * (sorted[lo + 2] - sorted[lo + 1]), 4)

\* Series.median()
Median(vals) == Quantile(vals, 2)

\* The names of cols that are not columns of the frame, as a set.
MissingColumns(frame, cols) == { c \in Range(cols) : ~HasColumn(frame, c) }

----------------------------------------------------------------------------
(* get_basic_statistics *)

\* self.df.select_dtypes(include=[np.number]).columns.tolist(): every column
\* of the model is numeric.
NumericColumns(frame) == frame.columns

\* Series.describe() of one numeric column.
DescribeColumn(frame, c) ==
    LET vals == Values(frame, c)
    IN [count |-> Len(vals),
        mean |-> Mean(vals),
        std |-> Std(vals),
        min |-> MinValue(vals),
        q25 |-> Quantile(vals, 1),
        q50 |-> Quantile(vals, 2),
        q75 |-> Quantile(vals, 3),
        max |-> MaxValue(vals)]

\* self.df[numeric_cols].describe(): the selection raises KeyError for the
\* names that are not columns, describe raises ValueError for no columns.
get_basic_statistics(frame, numeric_cols) ==
    LET cols == IF numeric_cols = None THEN NumericColumns(frame)
                ELSE numeric_cols[1]
    IN IF MissingColumns(frame, cols) # {}
       THEN Raise("KeyError", MissingColumns(frame, cols))
       ELSE IF Len(cols) = 0
       THEN Raise("ValueError", {})
       ELSE [kind |-> "describe", columns |-> cols,
             stats |-> [c \in Range(cols) |-> DescribeColumn(frame, c)]]

----------------------------------------------------------------------------
(* calculate_subject_averages *)

\* The keys of the dict averages in insertion order: the names of
\* subject_columns that are columns of the frame, each at its first place.
KnownSubjects(frame, subject_columns) ==
    LET First(i) == \A j \in 1..(i - 1) : subject_columns[j] # subject_columns[i]
        keep == { i \in 1..Len(subject_columns) :
                    HasColumn(frame, subject_columns[i]) /\ First(i) }
        picked[i \in 0..Len(subject_columns)] ==
            IF i = 0 THEN <<>>
            ELSE IF i \in keep THEN Append(picked[i - 1], subject_columns[i])
            ELSE picked[i - 1]
    IN picked[Len(subject_columns)]

SubjectAverage(frame, subject) ==
    LET vals == Values(frame, subject)
    IN [mean |-> Mean(vals),
        median |-> Median(vals),
        std |-> Std(vals),
        min |-> MinValue(vals),
        max |-> MaxValue(vals)]

\* calculate_subject_averages that raises for a name that is no column.
calculate_subject_averages_strict(frame, subject_columns) ==
    IF MissingColumns(frame, subject_columns) # {}
    THEN Raise("KeyError", MissingColumns(frame, subject_columns))
    ELSE [kind |-> "averages", index |-> KnownSubjects(frame, subject_columns),
          stats |-> [c \in Range(subject_columns) |-> SubjectAverage(frame, c)]]

\* pd.DataFrame(averages).T: one row per key of averages.
calculate_subject_averages(frame, subject_columns) ==
    LET known == KnownSubjects(frame, subject_columns)
    IN [kind |-> "averages", index |-> known,
        stats |-> [c \in Range(known) |-> SubjectAverage(frame, c)]]

----------------------------------------------------------------------------
(* identify_correlations, calculate_attendance_impact *)

\* The Pearson coefficient cov / sqrt(var_x * var_y), kept as its three
\* terms (each scaled by the same n * n).
Corr(cov, var_x, var_y) == [cov |-> cov, var_x |-> var_x, var_y |-> var_y]

\* Pearson without subtracting the means (the cosine of xs and ys).
PearsonUncentered(xs, ys) ==
    LET cov == SumOfProducts(xs, ys)
        var_x == SumOfProducts(xs, xs)
        var_y == SumOfProducts(ys, ys)
    IN IF var_x = 0 \/ var_y = 0 THEN FloatNaN ELSE Corr(cov, var_x, var_y)

\* The coefficient of the sequences xs, ys of equal length; NaN when one of
\* them has no spread (which includes a length below 2).
Pearson(xs, ys) ==
    LET n == Len(xs)
        cov == n * SumOfProducts(xs, ys) - Sum(xs) * Sum(ys)
        var_x == n * SumOfProducts(xs, xs) - Sum(xs) * Sum(xs)
        var_y == n * SumOfProducts(ys, ys) - Sum(ys) * Sum(ys)
    IN IF var_x = 0 \/ var_y = 0 THEN FloatNaN ELSE Corr(cov, var_x, var_y)

\* DataFrame.corr() for one pair of columns: over the rows where neither
\* cell is NaN.
PairwiseCorr(frame, a, b) ==
    LET both == SelectSeq(frame.rows,
                          LAMBDA r : notna(r.cells[a]) /\ notna(r.cells[b]))
    IN Pearson([i \in 1..Len(both) |-> Val(both[i].cells[a])],
               [i \in 1..Len(both) |-> Val(both[i].cells[b])])

\* self.df[columns].corr(): the entries on and above the diagonal are
\* computed, those below are their mirror images.
identify_correlations(frame, columns) ==
    LET cols == IF columns = None THEN NumericColumns(frame) ELSE columns[1]
    IN IF MissingColumns(frame, cols) # {}
       THEN Raise("KeyError", MissingColumns(frame, cols))
       ELSE [kind |-> "corr", columns |-> cols,
             matrix |-> [i \in 1..Len(cols) |-> [j \in 1..Len(cols) |->
                           IF i <= j THEN PairwiseCorr(frame, cols[i], cols[j])
                           ELSE PairwiseCorr(frame, cols[j], cols[i])]]]

\* abs(corr) >= tenths / 10; a comparison with NaN is False.
AbsAtLeast(corr, tenths) ==
    /\ corr # FloatNaN
    /\ 10 * 10 * corr.cov * corr.cov
         >= tenths * tenths * corr.var_x * corr.var_y

\* corr > 0; a comparison with NaN is False.
IsPositive(corr) == corr # FloatNaN /\ corr.cov > 0

_interpret_correlation(corr) ==
    LET strength == IF AbsAtLeast(corr, 7) THEN "strong"
                    ELSE IF AbsAtLeast(corr, 4) THEN "moderate"
                    ELSE IF AbsAtLeast(corr, 2) THEN "weak"
                    ELSE "very weak"
        direction == IF IsPositive(corr) THEN "positive" ELSE "negative"
    IN strength \o " " \o direction

\* The two-sided p-value of pearsonr: 1.0 for two observations, else a
\* function of the coefficient and the number of observations.
PValue(corr, n) ==
    IF corr = FloatNaN THEN FloatNaN
    ELSE IF n = 2 THEN Frac(1, 1)
    ELSE [p_of |-> corr, n |-> n]

\* pearsonr(self.df[attendance_column], self.df[score_column]): ValueError
\* below two observations; NaN for an input with a NaN or without spread.
calculate_attendance_impact(frame, score_column, attendance_column) ==
    IF ~HasColumn(frame, attendance_column)
    THEN Raise("KeyError", {attendance_column})
    ELSE IF ~HasColumn(frame, score_column)
    THEN Raise("KeyError", {score_column})
    ELSE IF Len(frame.rows) < 2
    THEN Raise("ValueError", {})
    ELSE LET xs == Series(frame, attendance_column)
             ys == Series(frame, score_column)
             correlation ==
                 IF \E i \in 1..Len(xs) : isna(xs[i]) \/ isna(ys[i])
                 THEN FloatNaN
                 ELSE Pearson([i \in 1..Len(xs) |-> Val(xs[i])],
                              [i \in 1..Len(ys) |-> Val(ys[i])])
         IN [kind |-> "impact",
             correlation |-> correlation,
             p_value |-> PValue(correlation, Len(xs)),
             interpretation |-> _interpret_correlation(correlation)]

----------------------------------------------------------------------------
(* get_grade_trends *)

\* [student[col] for col in score_cols if pd.notna(student[col])]
RowScores(row, score_cols) ==
    LET kept == SelectSeq([i \in 1..Len(score_cols) |-> row.cells[score_cols[i]]],
                          notna)
    IN [i \in 1..Len(kept) |-> Val(kept[i])]

\* Trend that compares the second score with the first.
TrendAdjacent(scores) ==
    IF Len(scores) >= 2
    THEN IF scores[2] > scores[1] THEN "improving"
         ELSE IF scores[2] < scores[1] THEN "declining"
         ELSE "stable"
    ELSE "insufficient_data"

Trend(scores) ==
    IF Len(scores) >= 2
    THEN IF scores[Len(scores)] > scores[1] THEN "improving"
         ELSE IF scores[Len(scores)] < scores[1] THEN "declining"
         ELSE "stable"
    ELSE "insufficient_data"

\* AvgChange that divides by the number of intervals.
AvgChangePerInterval(scores) ==
    IF Len(scores) >= 2
    THEN Frac(scores[Len(scores)] - scores[1], Len(scores) - 1)
    ELSE Frac(0, 1)

AvgChange(scores) ==
    IF Len(scores) >= 2
    THEN Frac(scores[Len(scores)] - scores[1], Len(scores))
    ELSE Frac(0, 1)

\* One pass of the loop: student[col] raises KeyError for the first name of
\* score_cols that is no column, then student[student_id_col] does.
RowTrend(row, student_id_col, score_cols) ==
    LET absent == { i \in 1..Len(score_cols) : score_cols[i] \notin DOMAIN row.cells }
    IN IF absent # {}
       THEN Raise("KeyError",
                  {score_cols[CHOOSE i \in absent : \A j \in absent : i <= j]})
       ELSE IF student_id_col \notin DOMAIN row.cells
       THEN Raise("KeyError", {student_id_col})
       ELSE LET scores == RowScores(row, score_cols)
            IN [kind |-> "row",
                student_id |-> row.cells[student_id_col],
                trend |-> Trend(scores),
                avg_change |-> AvgChange(scores),
                first_score |-> IF Len(scores) > 0 THEN Some(scores[1]) ELSE None,
                last_score |-> IF Len(scores) > 0 THEN Some(scores[Len(scores)])
                               ELSE None]

\* The loop over self.df.iterrows(): the first pass that raises ends the
\* call; a frame without rows makes no pass.
get_grade_trends(frame, student_id_col, score_cols) ==
    LET passes == [i \in 1..Len(frame.rows) |->
                     RowTrend(frame.rows[i], student_id_col, score_cols)]
        raising == { i \in 1..Len(passes) : passes[i].kind = "error" }
    IN IF raising # {}
       THEN passes[CHOOSE i \in raising : \A j \in raising : i <= j]
       ELSE [kind |-> "trends", rows |-> passes]

----------------------------------------------------------------------------
(* The analyzer. *)

\* __init__: self.df = df.copy()
Init ==
    /\ loaded \in Datasets
    /\ df = DataFrameCopy(loaded)
    /\ call = [op |-> "none"]
    /\ result = NoResult
    /\ calls = 0

\* What every method does besides returning: it leaves self.df as it is.
\* calls counts the calls made so far.
Returned ==
    /\ calls' = IF calls < 2 THEN calls + 1 ELSE 2
    /\ UNCHANGED <<df, loaded>>

GetBasicStatistics ==
    \E cols \in NumericColsArgs :
        /\ call' = [op |-> "get_basic_statistics", numeric_cols |-> cols]
        /\ result' = get_basic_statistics(df, cols)
        /\ Returned

CalculatePassFailRate ==
    \E c \in ColumnNames, p \in Thresholds :
        /\ call' = [op |-> "calculate_pass_fail_rate",
                    score_column |-> c, passing_score |-> p]
        /\ result' = calculate_pass_fail_rate(df, c, p)
        /\ Returned

\* GetTopPerformers that sorts self.df in place before it takes the head.
GetTopPerformersInPlace ==
    \E c \in ColumnNames, n \in Counts :
        /\ call' = [op |-> "get_top_performers", score_column |-> c, n |-> n]
        /\ result' = get_top_performers(df, c, n)
        /\ df' = IF HasColumn(df, c)
                 THEN [df EXCEPT !.rows = SelectN(df.rows, Len(df.rows), c, FALSE)]
                 ELSE df
        /\ calls' = IF calls < 2 THEN calls + 1 ELSE 2
        /\ UNCHANGED loaded

GetTopPerformers ==
    \E c \in ColumnNames, n \in Counts :
        /\ call' = [op |-> "get_top_performers", score_column |-> c, n |-> n]
        /\ result' = get_top_performers(df, c, n)
        /\ Returned

GetStrugglingStudents ==
    \E c \in ColumnNames, t \in Thresholds, n \in Counts :
        /\ call' = [op |-> "get_struggling_students",
                    score_column |-> c, threshold |-> t, n |-> n]
        /\ result' = get_struggling_students(df, c, t, n)
        /\ Returned

CalculateSubjectAverages ==
    \E cols \in SubjectColumnsArgs :
        /\ call' = [op |-> "calculate_subject_averages", subject_columns |-> cols]
        /\ result' = calculate_subject_averages(df, cols)
        /\ Returned

IdentifyCorrelations ==
    \E cols \in CorrelationColumnsArgs :
        /\ call' = [op |-> "identify_correlations", columns |-> cols]
        /\ result' = identify_correlations(df, cols)
        /\ Returned

CalculateAttendanceImpact ==
    \E a \in AttendanceArgs :
        /\ call' = [op |-> "calculate_attendance_impact",
                    score_column |-> a[1], attendance_column |-> a[2]]
        /\ result' = calculate_attendance_impact(df, a[1], a[2])
        /\ Returned

GetGradeTrends ==
    \E id \in StudentIdArgs, cols \in ScoreColsArgs :
        /\ call' = [op |-> "get_grade_trends",
                    student_id_col |-> id, score_cols |-> cols]
        /\ result' = get_grade_trends(df, id, cols)
        /\ Returned

Next ==
    \/ GetBasicStatistics
    \/ CalculatePassFailRate
    \/ GetTopPerformers
    \/ GetStrugglingStudents
    \/ CalculateSubjectAverages
    \/ IdentifyCorrelations
    \/ CalculateAttendanceImpact
    \/ GetGradeTrends

Spec == Init /\ [][Next]_vars

----------------------------------------------------------------------------
(* The analyzer of a frame with checkpoint columns: the rows of a student's *)
(* scores q1, q2, q3 in chronological order.                               *)

\* Scores a cell of a checkpoint column takes.
TrendValues == {50, 60}

CheckpointColumns == <<"q1", "q2", "q3">>

\* The frames with columns student_id, q1, q2, q3 and n rows; student_id is
\* the row's position (from 1).
TrendFrames(n) ==
    { [columns |-> <<"student_id">> \o CheckpointColumns,
       rows |-> [i \in 1..n |->
                   Row(i - 1, [c \in {"student_id"} \cup Range(CheckpointColumns) |->
                                 IF c = "student_id" THEN Num(i) ELSE s[i][c]])]]
      : s \in [1..n -> [Range(CheckpointColumns) ->
                          {NaN} \cup {Num(v) : v \in TrendValues}]] }

TrendDatasets == UNION { TrendFrames(n) : n \in 0..MaxTrendRows }

\* score_cols: every checkpoint, two of them out of order, one alone.
CheckpointColsArgs == {<<"q1", "q2", "q3">>, <<"q3", "q1">>, <<"q2">>}

\* __init__: self.df = df.copy()
TrendInit ==
    /\ loaded \in TrendDatasets
    /\ df = DataFrameCopy(loaded)
    /\ call = [op |-> "none"]
    /\ result = NoResult
    /\ calls = 0

GetCheckpointTrends ==
    \E id \in StudentIdArgs, cols \in CheckpointColsArgs :
        /\ call' = [op |-> "get_grade_trends",
                    student_id_col |-> id, score_cols |-> cols]
        /\ result' = get_grade_trends(df, id, cols)
        /\ Returned

TrendNext == GetCheckpointTrends

TrendSpec == TrendInit /\ [][TrendNext]_vars

----------------------------------------------------------------------------
(* assign_letter_grades *)

\* AtLeast with the comparison strict.
AtLeastStrict(score, bound) ==
    score # FloatNaN /\ score.num > bound * score.den

\* score >= bound, for a float score; a comparison with NaN is False.
AtLeast(score, bound) ==
    score # FloatNaN /\ score.num >= bound * score.den

assign_letter_grades(score) ==
    IF AtLeast(score, 90) THEN "A"
    ELSE IF AtLeast(score, 80) THEN "B"
    ELSE IF AtLeast(score, 70) THEN "C"
    ELSE IF AtLeast(score, 60) THEN "D"
    ELSE "F"

\* The scores a grade is asked for: NaN, and every tenth from -5 to
\* MaxGradeScore.
GradeScores ==
    {FloatNaN} \cup { Frac(t, 10) : t \in (-5 * 10)..(MaxGradeScore * 10) }

LetterInit ==
    /\ loaded = ExampleFrame
    /\ df = DataFrameCopy(loaded)
    /\ call = [op |-> "none"]
    /\ result = NoResult
    /\ calls = 0

AssignLetterGrades ==
    \E score \in GradeScores :
        /\ call' = [op |-> "assign_letter_grades", score |-> score]
        /\ result' = [kind |-> "grade", letter |-> assign_letter_grades(score)]
        /\ Returned

LetterNext == AssignLetterGrades

LetterSpec == LetterInit /\ [][LetterNext]_vars

----------------------------------------------------------------------------
(* What the properties below are stated with. *)

IsPassFailCall == call.op = "calculate_pass_fail_rate" /\ result.kind = "pass_fail"
IsTopCall == call.op = "get_top_performers" /\ result.kind = "frame"
IsStrugglingCall == call.op = "get_struggling_students" /\ result.kind = "frame"

\* The positions of the loaded frame whose cell in column c is missing, is
\* a score, is a score at or above p, above p, below p, equal to p.
MissingAt(c) == { i \in 1..Len(loaded.rows) : isna(loaded.rows[i].cells[c]) }
ScoredAt(c) == { i \in 1..Len(loaded.rows) : notna(loaded.rows[i].cells[c]) }
AtOrAbove(c, p) == { i \in ScoredAt(c) : Val(loaded.rows[i].cells[c]) >= p }
Above(c, p) == { i \in ScoredAt(c) : Val(loaded.rows[i].cells[c]) > p }
Below(c, p) == { i \in ScoredAt(c) : Val(loaded.rows[i].cells[c]) < p }
EqualTo(c, p) == { i \in ScoredAt(c) : Val(loaded.rows[i].cells[c]) = p }

\* The column c of the rows of a result, as a sequence of cells.
ResultCells(c) == [i \in 1..Len(result.rows) |-> result.rows[i].cells[c]]
ResultIndexes == { result.rows[i].index : i \in 1..Len(result.rows) }

\* Every row of the result is a row of the loaded frame, each at most once,
\* with the columns of the loaded frame.
RowsOfDataset ==
    /\ result.columns = loaded.columns
    /\ \A i \in 1..Len(result.rows) :
           \E k \in 1..Len(loaded.rows) : loaded.rows[k] = result.rows[i]
    /\ Cardinality(ResultIndexes) = Len(result.rows)

\* Cell a ranks at least as high as cell b; a missing score ranks lowest.
RanksAtLeast(a, b) == isna(b) \/ (notna(a) /\ Val(a) >= Val(b))

FracEquals(f, k) == f.den > 0 /\ f.num = k * f.den

Min(a, b) == IF a < b THEN a ELSE b

----------------------------------------------------------------------------
(* Properties. *)

\* C1: the total_students of calculate_pass_fail_rate is the number of rows
\* whose score is not missing, and passed and failed count only such rows
\* (passed those at or above passing_score, failed those below it).
C1_MissingExcludedFromTotal ==
    IsPassFailCall =>
        LET c == call.score_column
            p == call.passing_score
        IN /\ result.total_students = Cardinality(ScoredAt(c))
           /\ result.passed = Cardinality(AtOrAbove(c, p))
           /\ result.failed = Cardinality(Below(c, p))

\* C2: the result of calculate_pass_fail_rate has
\* passed + failed = total_students, passed >= 0 and failed >= 0.
C2_PassedPlusFailedIsTotal ==
    IsPassFailCall =>
        /\ result.passed + result.failed = result.total_students
        /\ result.passed >= 0
        /\ result.failed >= 0

\* C2 witness: a call on a frame with a missing score returned some passed
\* and some failed rows.
C2_Witness ==
    /\ IsPassFailCall
    /\ MissingAt(call.score_column) # {}
    /\ result.passed > 0
    /\ result.failed > 0

\* C3: pass_rate and fail_rate are in [0, 100]; they add up to 100 when
\* total_students > 0; both are 0 when total_students = 0, and the call on
\* a column of the frame returns a result rather than raising.
C3_RatesBoundedAndGuarded ==
    /\ IsPassFailCall =>
          /\ result.pass_rate.den > 0 /\ result.fail_rate.den > 0
          /\ 0 <= result.pass_rate.num
          /\ result.pass_rate.num <= 100 * result.pass_rate.den
          /\ 0 <= result.fail_rate.num
          /\ result.fail_rate.num <= 100 * result.fail_rate.den
          /\ result.total_students > 0 =>
                 result.pass_rate.num * result.fail_rate.den
                   + result.fail_rate.num * result.pass_rate.den
                 = 100 * result.pass_rate.den * result.fail_rate.den
          /\ result.total_students = 0 =>
                 FracEquals(result.pass_rate, 0) /\ FracEquals(result.fail_rate, 0)
    /\ (call.op = "calculate_pass_fail_rate" /\ HasColumn(loaded, call.score_column))
          => result.kind = "pass_fail"

\* C3 witness: a call on a frame with no rows returned both rates 0.
C3_Witness ==
    /\ IsPassFailCall
    /\ Len(loaded.rows) = 0
    /\ result.total_students = 0
    /\ FracEquals(result.pass_rate, 0)
    /\ FracEquals(result.fail_rate, 0)

\* C4: passed is the number of rows with score >= passing_score, a score
\* equal to passing_score included; scores [95, 40, 70, 60, 85] with
\* passing_score 60 give total 5, passed 4, failed 1, rates 80 and 20.
C4_PassingScoreInclusive ==
    IsPassFailCall =>
        LET c == call.score_column
            p == call.passing_score
        IN /\ result.passed =
                  Cardinality(Above(c, p)) + Cardinality(EqualTo(c, p))
           /\ (loaded = ExampleFrame /\ c = "score" /\ p = 60) =>
                  /\ result.total_students = 5
                  /\ result.passed = 4
                  /\ result.failed = 1
                  /\ FracEquals(result.pass_rate, 80)
                  /\ FracEquals(result.fail_rate, 20)

\* C4 witness: the call of the scenario, where the row with score 60 passed.
C4_Witness ==
    /\ IsPassFailCall
    /\ loaded = ExampleFrame
    /\ call.score_column = "score"
    /\ call.passing_score = 60
    /\ result.passed = 4

\* What the call c returns on the frame: the method of that name, applied
\* to the arguments of the call.
ResultOn(frame, c) ==
    CASE c.op = "get_basic_statistics" ->
             get_basic_statistics(frame, c.numeric_cols)
      [] c.op = "calculate_pass_fail_rate" ->
             calculate_pass_fail_rate(frame, c.score_column, c.passing_score)
      [] c.op = "get_top_performers" ->
             get_top_performers(frame, c.score_column, c.n)
      [] c.op = "get_struggling_students" ->
             get_struggling_students(frame, c.score_column, c.threshold, c.n)
      [] c.op = "calculate_subject_averages" ->
             calculate_subject_averages(frame, c.subject_columns)
      [] c.op = "identify_correlations" ->
             identify_correlations(frame, c.columns)
      [] c.op = "calculate_attendance_impact" ->
             calculate_attendance_impact(frame, c.score_column, c.attendance_column)
      [] c.op = "get_grade_trends" ->
             get_grade_trends(frame, c.student_id_col, c.score_cols)
      [] c.op = "none" -> NoResult

\* C5: after any sequence of calls the rows and the columns of self.df are
\* those of the frame at load, and the result of the last call is what the
\* call returns on the frame at load, whichever calls were made before it
\* (so the same call made again returns the same result).
C5_SnapshotNeverMutated ==
    /\ df.columns = loaded.columns
    /\ df.rows = loaded.rows
    /\ result = ResultOn(loaded, call)

\* C5 witness: get_basic_statistics returned a summary after at least one
\* earlier call, on a frame with rows.
C5_Witness ==
    /\ calls = 2
    /\ call.op = "get_basic_statistics"
    /\ result.kind = "describe"
    /\ Len(loaded.rows) > 1
    /\ df = loaded

\* C6: get_top_performers returns rows of the dataset, in non-increasing
\* order of the score (a missing score ranks lowest), as many as
\* min(n, row count), and no row left out ranks above a row returned;
\* scores [95, 40, 70, 60, 85] with n = 2 give [95, 85].
C6_TopPerformersSortedDescending ==
    IsTopCall =>
        LET c == call.score_column
            cells == ResultCells(c)
        IN /\ RowsOfDataset
           /\ Len(result.rows) = Min(call.n, Len(loaded.rows))
           /\ \A i, j \in 1..Len(cells) : i < j => RanksAtLeast(cells[i], cells[j])
           /\ \A k \in 1..Len(loaded.rows) :
                  loaded.rows[k].index \notin ResultIndexes =>
                      \A i \in 1..Len(cells) :
                          RanksAtLeast(cells[i], loaded.rows[k].cells[c])
           /\ (loaded = ExampleFrame /\ c = "score" /\ call.n = 2) =>
                  cells = <<Num(95), Num(85)>>

\* C6 witness: a call with n above the row count returned every row, of
\* different scores.
C6_Witness ==
    /\ IsTopCall
    /\ call.n > Len(loaded.rows)
    /\ Len(result.rows) = Len(loaded.rows)
    /\ Cardinality(Range(ResultCells(call.score_column))) >= 3

\* C7: get_struggling_students returns only rows whose score is below the
\* threshold (never a row at the threshold or with a missing score), in
\* non-decreasing order of the score, at most n of them, and returns a
\* frame (with no rows when no row qualifies) for every column of the frame.
C7_StrugglingBelowThresholdAscending ==
    /\ IsStrugglingCall =>
          LET c == call.score_column
              cells == ResultCells(c)
          IN /\ RowsOfDataset
             /\ \A i \in 1..Len(cells) :
                    notna(cells[i]) /\ Val(cells[i]) < call.threshold
             /\ \A i, j \in 1..Len(cells) :
                    i < j => Val(cells[i]) <= Val(cells[j])
             /\ Len(result.rows) <= call.n
    /\ (call.op = "get_struggling_students" /\ HasColumn(loaded, call.score_column))
          => result.kind = "frame"

\* C7 witness: the frame has a row at the threshold, a row with a missing
\* score and a row below the threshold; only the last is returned.
C7_Witness ==
    /\ IsStrugglingCall
    /\ EqualTo(call.score_column, call.threshold) # {}
    /\ MissingAt(call.score_column) # {}
    /\ Len(result.rows) = 1

\* C8: in the results of get_top_performers and get_struggling_students,
\* rows of equal score are in their order in the dataset, and a row left
\* out by the cut to n that has the score of a row kept (and, for
\* get_struggling_students, is below the threshold) comes after it in the
\* dataset.
C8_TiesInOriginalOrder ==
    (IsTopCall \/ IsStrugglingCall) =>
        LET c == call.score_column
            rows == result.rows
            Tied(a, b) == notna(a.cells[c]) /\ a.cells[c] = b.cells[c]
        IN /\ \A i, j \in 1..Len(rows) :
                  (i < j /\ Tied(rows[i], rows[j])) => rows[i].index < rows[j].index
           /\ \A k \in 1..Len(loaded.rows), i \in 1..Len(rows) :
                  ( /\ loaded.rows[k].index \notin ResultIndexes
                    /\ Tied(rows[i], loaded.rows[k]) )
                  => rows[i].index < loaded.rows[k].index

\* C8 witness: a tie at the cut: a row returned by get_top_performers has
\* the score of a row left out, and two rows returned are tied too.
C8_Witness ==
    /\ IsTopCall
    /\ \E i, j \in 1..Len(result.rows) :
           /\ i < j
           /\ notna(result.rows[i].cells[call.score_column])
           /\ result.rows[i].cells[call.score_column]
                = result.rows[j].cells[call.score_column]
    /\ \E k \in 1..Len(loaded.rows), i \in 1..Len(result.rows) :
           /\ loaded.rows[k].index \notin ResultIndexes
           /\ loaded.rows[k].cells[call.score_column]
                = result.rows[i].cells[call.score_column]

\* C9: calculate_pass_fail_rate, get_top_performers and get_basic_statistics
\* called with a name that is no column of the dataset raise an error that
\* names the column and return nothing; self.df is left as it was.
C9_AbsentColumnRaises ==
    /\ (call.op \in {"calculate_pass_fail_rate", "get_top_performers"}
          /\ ~HasColumn(loaded, call.score_column))
       => /\ result.kind = "error"
          /\ result.type \in {"ValueError", "KeyError"}
          /\ call.score_column \in result.names
          /\ df = loaded
    /\ (call.op = "get_basic_statistics" /\ call.numeric_cols # None)
       => \A i \in 1..Len(call.numeric_cols[1]) :
              ~HasColumn(loaded, call.numeric_cols[1][i])
              => /\ result.kind = "error"
                 /\ result.type = "KeyError"
                 /\ call.numeric_cols[1][i] \in result.names
                 /\ df = loaded

\* C9 witness: get_top_performers was called with a name that is no column
\* of a frame with rows, and raised.
C9_Witness ==
    /\ call.op = "get_top_performers"
    /\ ~HasColumn(loaded, call.score_column)
    /\ Len(loaded.rows) > 0
    /\ call.n > 0
    /\ result.kind = "error"

\* C10: get_grade_trends called with a student_id_col that is no column of
\* the dataset raises an error and returns no trend table, for every
\* dataset, one without rows included.
C10_AbsentStudentIdRaises ==
    (call.op = "get_grade_trends" /\ ~HasColumn(loaded, call.student_id_col))
        => result.kind = "error" /\ result.type = "KeyError"

----------------------------------------------------------------------------
(* Properties of get_grade_trends, on the frames with checkpoint columns. *)

IsTrendsCall == call.op = "get_grade_trends" /\ result.kind = "trends"

\* The places of score_cols at which the row has a score.
ScoredPlaces(row) ==
    { j \in 1..Len(call.score_cols) : notna(row.cells[call.score_cols[j]]) }

\* The row's first and last score in the order of score_cols (for a row
\* with a score).
FirstScore(row) ==
    LET j == CHOOSE a \in ScoredPlaces(row) : \A b \in ScoredPlaces(row) : a <= b
    IN Val(row.cells[call.score_cols[j]])
LastScore(row) ==
    LET j == CHOOSE a \in ScoredPlaces(row) : \A b \in ScoredPlaces(row) : a >= b
    IN Val(row.cells[call.score_cols[j]])

\* C11: get_grade_trends returns one result per row of the dataset, in the
\* order of the rows, and the i-th result is that of the i-th row: its
\* trend is insufficient_data (with avg_change 0) exactly when the row has
\* fewer than 2 scores among score_cols; else improving, declining or
\* stable as the last score is above, below or equal to the first.
C11_OneTrendPerRow ==
    /\ (call.op = "get_grade_trends"
          /\ HasColumn(loaded, call.student_id_col)
          /\ MissingColumns(loaded, call.score_cols) = {})
       => result.kind = "trends"
    /\ IsTrendsCall =>
          /\ Len(result.rows) = Len(loaded.rows)
          /\ \A i \in 1..Len(loaded.rows) :
                 LET row == loaded.rows[i]
                     r == result.rows[i]
                     k == Cardinality(ScoredPlaces(row))
                 IN /\ r.student_id = row.cells[call.student_id_col]
                    /\ r.trend = "insufficient_data" <=> k < 2
                    /\ k < 2 => FracEquals(r.avg_change, 0)
                    /\ k >= 2 =>
                          /\ r.trend = "improving" <=> LastScore(row) > FirstScore(row)
                          /\ r.trend = "declining" <=> LastScore(row) < FirstScore(row)
                          /\ r.trend = "stable" <=> LastScore(row) = FirstScore(row)

\* C11 witness: the first row has the scores [60, 60] and is stable with
\* avg_change 0, the second has the single score 50 and is
\* insufficient_data.
C11_Witness ==
    /\ IsTrendsCall
    /\ call.score_cols = CheckpointColumns
    /\ Len(loaded.rows) = 2
    /\ Len(result.rows) = 2
    /\ loaded.rows[1].cells["q1"] = Num(60)
    /\ loaded.rows[1].cells["q2"] = Num(60)
    /\ loaded.rows[1].cells["q3"] = NaN
    /\ result.rows[1].trend = "stable"
    /\ FracEquals(result.rows[1].avg_change, 0)
    /\ loaded.rows[2].cells["q1"] = Num(50)
    /\ loaded.rows[2].cells["q2"] = NaN
    /\ loaded.rows[2].cells["q3"] = NaN
    /\ result.rows[2].trend = "insufficient_data"

\* C16: in every result of get_grade_trends for a row with k >= 2 scores,
\* avg_change is (last score - first score) / k and its sign agrees with
\* the trend; first_score and last_score are both absent exactly when the
\* row has no score.
C16_AvgChangeOverCount ==
    IsTrendsCall =>
        \A i \in 1..Len(loaded.rows) :
            LET row == loaded.rows[i]
                r == result.rows[i]
                k == Cardinality(ScoredPlaces(row))
            IN /\ k >= 2 =>
                     /\ r.avg_change.den > 0
                     /\ r.avg_change.num * k
                          = (LastScore(row) - FirstScore(row)) * r.avg_change.den
                     /\ r.avg_change.num > 0 <=> r.trend = "improving"
                     /\ r.avg_change.num < 0 <=> r.trend = "declining"
                     /\ r.avg_change.num = 0 <=> r.trend = "stable"
               /\ r.first_score = None <=> k = 0
               /\ r.last_score = None <=> k = 0
               /\ k > 0 => /\ r.first_score = Some(FirstScore(row))
                           /\ r.last_score = Some(LastScore(row))

\* C16 witness: a row with three scores that improves by 10 has avg_change
\* 10 / 3, and a row without a score has no first_score and no last_score.
C16_Witness ==
    /\ IsTrendsCall
    /\ Len(loaded.rows) = 2
    /\ Cardinality(ScoredPlaces(loaded.rows[1])) = 3
    /\ result.rows[1].trend = "improving"
    /\ result.rows[1].avg_change = Frac(10, 3)
    /\ Cardinality(ScoredPlaces(loaded.rows[2])) = 0
    /\ result.rows[2].first_score = None
    /\ result.rows[2].last_score = None

----------------------------------------------------------------------------
(* Properties of _interpret_correlation, through calculate_attendance_impact. *)

IsImpactCall == call.op = "calculate_attendance_impact" /\ result.kind = "impact"

PositiveLabels ==
    {"strong positive", "moderate positive", "weak positive", "very weak positive"}
NegativeLabels ==
    {"strong negative", "moderate negative", "weak negative", "very weak negative"}

\* C12: the interpretation of a correlation of exactly 0 is
\* "very weak positive", that of every correlation above 0 is a positive
\* label, and only that of a correlation below 0 is a negative label.
C12_ZeroCorrelationIsPositive ==
    (IsImpactCall /\ result.correlation # FloatNaN) =>
        /\ result.correlation.cov = 0 =>
               result.interpretation = "very weak positive"
        /\ result.correlation.cov > 0 => result.interpretation \in PositiveLabels
        /\ result.correlation.cov < 0 => result.interpretation \in NegativeLabels
        /\ result.interpretation \in NegativeLabels => result.correlation.cov < 0

----------------------------------------------------------------------------
(* Properties of calculate_subject_averages. *)

\* The first place of name in the sequence names (of which it is a member).
FirstPlace(names, name) ==
    CHOOSE i \in 1..Len(names) :
        names[i] = name /\ \A j \in 1..(i - 1) : names[j] # name

\* C13: calculate_subject_averages raises no error, whichever names of
\* subject_columns are columns of the dataset (none of them included); the
\* table has exactly one row per name that is a column, and the rows are in
\* the order of the names in subject_columns.
C13_UnknownSubjectsSkipped ==
    call.op = "calculate_subject_averages" =>
        /\ result.kind = "averages"
        /\ LET input == call.subject_columns
               index == result.index
           IN /\ \A i \in 1..Len(index) :
                     HasColumn(loaded, index[i]) /\ index[i] \in Range(input)
              /\ \A j \in 1..Len(input) :
                     HasColumn(loaded, input[j]) =>
                         Cardinality({ i \in 1..Len(index) : index[i] = input[j] }) = 1
              /\ \A a, b \in 1..Len(index) :
                     a < b => FirstPlace(input, index[a]) < FirstPlace(input, index[b])
              /\ DOMAIN result.stats = Range(index)

\* C13 witness: of three names the first is no column; the table has the
\* rows of the other two, in their order.
C13_Witness ==
    /\ call.op = "calculate_subject_averages"
    /\ call.subject_columns = <<"bonus", "score", "student_id">>
    /\ result.kind = "averages"
    /\ result.index = <<"score", "student_id">>
    /\ Len(loaded.rows) > 0

----------------------------------------------------------------------------
(* Properties of assign_letter_grades. *)

IsGradeCall == call.op = "assign_letter_grades" /\ call.score # FloatNaN

\* The score of the call is below k, is k.
ScoreBelow(k) == call.score.num < k * call.score.den
ScoreIs(tenths) == call.score.num * 10 = tenths * call.score.den

\* C14: assign_letter_grades returns, for every score, exactly one of A, B,
\* C, D, F: A from 90, B from 80 to below 90, C from 70 to below 80, D from
\* 60 to below 70, F below 60 (negative scores included); 100, 95, 90 give
\* A, 89.9 and 80 give B, 70 gives C, 60 gives D, 59.9 and -5 give F.
C14_LetterGradeBands ==
    IsGradeCall =>
        /\ result.kind = "grade"
        /\ result.letter \in {"A", "B", "C", "D", "F"}
        /\ result.letter = "A" <=> ~ScoreBelow(90)
        /\ result.letter = "B" <=> (~ScoreBelow(80) /\ ScoreBelow(90))
        /\ result.letter = "C" <=> (~ScoreBelow(70) /\ ScoreBelow(80))
        /\ result.letter = "D" <=> (~ScoreBelow(60) /\ ScoreBelow(70))
        /\ result.letter = "F" <=> ScoreBelow(60)
        /\ (ScoreIs(1000) \/ ScoreIs(950) \/ ScoreIs(900)) => result.letter = "A"
        /\ (ScoreIs(899) \/ ScoreIs(800)) => result.letter = "B"
        /\ ScoreIs(700) => result.letter = "C"
        /\ ScoreIs(600) => result.letter = "D"
        /\ (ScoreIs(599) \/ ScoreIs(-50)) => result.letter = "F"

\* C14 witness: the score 60 got the grade D.
C14_Witness ==
    /\ IsGradeCall
    /\ ScoreIs(600)
    /\ result.letter = "D"

----------------------------------------------------------------------------
(* Properties of identify_correlations. *)

IsCorrCall == call.op = "identify_correlations" /\ result.kind = "corr"

\* The columns a call of identify_correlations chose.
ChosenColumns ==
    IF call.columns = None THEN df.columns ELSE call.columns[1]

\* The entry is a number (not NaN); it is 1.0; it lies in [-1, 1].
IsNumber(entry) == entry # FloatNaN /\ entry.var_x > 0 /\ entry.var_y > 0
IsOne(entry) ==
    /\ IsNumber(entry)
    /\ entry.cov > 0
    /\ entry.cov * entry.cov = entry.var_x * entry.var_y
InUnitInterval(entry) ==
    /\ IsNumber(entry)
    /\ entry.cov * entry.cov <= entry.var_x * entry.var_y

\* Two entries are the same number.
SameNumber(a, b) ==
    /\ IsNumber(a)
    /\ IsNumber(b)
    /\ a.cov = b.cov
    /\ a.var_x * a.var_y = b.var_x * b.var_y

\* Column c of the dataset has two non-missing values that differ.
HasSpread(c) ==
    \E i, j \in 1..Len(df.rows) :
        /\ notna(df.rows[i].cells[c])
        /\ notna(df.rows[j].cells[c])
        /\ Val(df.rows[i].cells[c]) # Val(df.rows[j].cells[c])

\* The result is a square matrix over the chosen columns, in their order.
SquareOverChosenColumns ==
    /\ result.columns = ChosenColumns
    /\ DOMAIN result.matrix = 1..Len(ChosenColumns)
    /\ \A i \in DOMAIN result.matrix :
           DOMAIN result.matrix[i] = 1..Len(ChosenColumns)

====
